---- MODULE Spec2Model ----
(***************************************************************************)
(* The task data-sync service (useTasksService), the tasks context and     *)
(* the dialog orchestrator (TasksDialogs) as a state machine.              *)
(*                                                                         *)
(* Every service operation is an async function with one suspension point, *)
(* the await on the remote client.  A call therefore takes three steps:    *)
(*   issue    the synchronous prefix up to the await,                      *)
(*   Remote   the remote store executes the request and builds the reply,  *)
(*   resume   the continuation after the await (try / catch / finally).    *)
(* Replies of different calls may be delivered in any order.               *)
(*                                                                         *)
(* Spec is the service under consumers that call its five operations;      *)
(* SpecDialogs is TasksDialogs and the context setters over the service's  *)
(* refresh and the delete the confirm dialog issues.                       *)
(***************************************************************************)
EXTENDS Integers, Sequences, FiniteSets, TLC

\* Bounds of the model.
MaxInFlight == 2   \* service calls awaiting their reply at the same time
MaxId       == 2   \* largest id the remote store hands out

\* The title a created task is given, and the title an update patches in.
NewTitles   == {"A"}
PatchTitles == {"B"}

\* A Task row; only id and one domain field are kept.
Task(i, t) == [id |-> i, title |-> t]

\* null for a Task-valued slot (currentRow) and for the error state.
NoRow   == [id |-> 0, title |-> ""]
NoError == "<null>"

\* The messages a failing transport may carry; "" is an error without a
\* message, for which the code falls back to a fixed text.
ServerMsgs == {"", "server error"}

VARIABLES
    tasks,       \* useState<Task[]>       the local cache
    loading,     \* useState(false)
    error,       \* useState<string|null>
    open,        \* useDialogState(null)   "none" stands for null
    currentRow,  \* useState<Task|null>
    store,       \* rows of the remote table, in insertion order
    nextId,      \* next id the remote store assigns
    calls,       \* the service calls suspended at their await, oldest first
    settled,     \* the call the last step settled, with what it showed and the
                 \* cache it found (before)
    created,     \* ids of the rows a resolved createTask has appended
    deleted      \* ids whose deleteTask has resolved

vars == <<tasks, loading, error, open, currentRow, store, nextId, calls, settled,
          created, deleted>>

DialogTypes == {"create", "update", "delete", "import"}

----------------------------------------------------------------------------
\* Helpers on sequences of rows.

RECURSIVE CountId(_, _)
CountId(s, i) ==
    IF s = <<>> THEN 0
    ELSE (IF Head(s).id = i THEN 1 ELSE 0) + CountId(Tail(s), i)

HasId(s, i) == \E k \in 1..Len(s) : s[k].id = i

Rows(s) == {s[k] : k \in 1..Len(s)}

RECURSIVE MapTitle(_, _, _)
MapTitle(s, i, t) ==
    IF s = <<>> THEN <<>>
    ELSE <<IF Head(s).id = i THEN Task(i, t) ELSE Head(s)>> \o MapTitle(Tail(s), i, t)

----------------------------------------------------------------------------
\* The remote client's reply { data, error }.  data is a list of rows (a
\* single row is a list of one); null marks data === null.

Reply(e, m, n, r) == [err |-> e, msg |-> m, null |-> n, rows |-> r]

NoReply == Reply(FALSE, "", TRUE, <<>>)

TransportError(m) == Reply(TRUE, m, TRUE, <<>>)

Matching(s, i) == SelectSeq(s, LAMBDA t : t.id = i)

\* .single(): exactly one row or an error reply.
Single(r) ==
    IF Len(r) = 1 THEN Reply(FALSE, "", FALSE, r)
    ELSE Reply(TRUE, "JSON object requested, multiple (or no) rows returned", TRUE, <<>>)

\* from('tasks').select('*')
StoreSelectAll(s) == Reply(FALSE, "", FALSE, s)

\* from('tasks').select('*').eq('id', id).single()
StoreSelectOne(s, i) == Single(Matching(s, i))

\* from('tasks').insert(task).select().single(): the store assigns the id.
StoreInsert(s, n, t) == Append(s, Task(n, t))

\* from('tasks').update(task).eq('id', id).select()
StoreUpdate(s, i, t) == MapTitle(s, i, t)

\* from('tasks').delete().eq('id', id)
StoreDelete(s, i) == SelectSeq(s, LAMBDA t : t.id # i)

----------------------------------------------------------------------------
\* Calls.

Ops == {"fetchTasks", "getTaskById", "createTask", "updateTask", "deleteTask"}

NewCall(o, i, t, v) ==
    [op |-> o, id |-> i, title |-> t, via |-> v, st |-> "sent", reply |-> NoReply]

CallIds == 1..Len(calls)

Sent(c)    == c \in CallIds /\ calls[c].st = "sent"
Replied(c) == c \in CallIds /\ calls[c].st = "replied"

\* Ids a caller can name: every id the store has handed out so far, whether
\* its row still exists or not.
KnownIds == 1..(nextId - 1)

Toast(k, m) == [kind |-> k, msg |-> m]

\* err.message || fallback
ErrorMessage(m, fallback) == IF m = "" THEN fallback ELSE m

\* What a step that settles no call leaves in settled.
NoCall ==
    [op |-> "none", id |-> 0, title |-> "", via |-> "", reply |-> NoReply,
     outcome |-> "none", result |-> <<>>, thrown |-> "", toasts |-> <<>>, logs |-> <<>>,
     before |-> <<>>]

\* The call settles: it resolves with value r, or rejects with an error whose
\* message is m, having shown the toasts ts.
Resolved(call, r, ts) ==
    [op |-> call.op, id |-> call.id, title |-> call.title, via |-> call.via,
     reply |-> call.reply, outcome |-> "resolved", result |-> r, thrown |-> "",
     toasts |-> ts, logs |-> <<>>, before |-> <<>>]

Rejected(call, m, ts) ==
    [op |-> call.op, id |-> call.id, title |-> call.title, via |-> call.via,
     reply |-> call.reply, outcome |-> "rejected", result |-> <<>>, thrown |-> m,
     toasts |-> ts, logs |-> <<>>, before |-> <<>>]

RemoveAt(s, c) == SubSeq(s, 1, c - 1) \o SubSeq(s, c + 1, Len(s))

Settle(c, call) ==
    /\ calls' = RemoveAt(calls, c)
    /\ settled' = [call EXCEPT !.before = tasks]
    /\ created' = IF call.op = "createTask" /\ call.outcome = "resolved"
                  THEN created \cup {call.result[1].id} ELSE created
    /\ deleted' = IF call.op = "deleteTask" /\ call.outcome = "resolved"
                  THEN deleted \cup {call.id} ELSE deleted

TypeOK ==
    /\ loading \in BOOLEAN
    /\ open \in DialogTypes \cup {"none"}
    /\ nextId \in 1..(MaxId + 1)
    /\ Len(calls) <= MaxInFlight
    /\ \A c \in CallIds : calls[c].op \in Ops
    /\ settled.op \in Ops \cup {"none"}

Init ==
    /\ tasks = <<>>
    /\ loading = FALSE
    /\ error = NoError
    /\ open = "none"
    /\ currentRow = NoRow
    /\ nextId = 2
    /\ store \in {<<>>, <<Task(1, "A")>>}
    /\ calls = <<>>
    /\ settled = NoCall
    /\ created = {}
    /\ deleted = {}

----------------------------------------------------------------------------
\* The remote store executes the request of call c, or the transport fails.

RemoteFails(c) ==
    /\ Sent(c)
    /\ \E m \in ServerMsgs :
         calls' = [calls EXCEPT ![c].st = "replied", ![c].reply = TransportError(m)]
    /\ settled' = NoCall
    /\ UNCHANGED <<created, deleted>>
    /\ UNCHANGED <<tasks, loading, error, open, currentRow, store, nextId>>

RemoteSelectAll(c) ==
    /\ Sent(c) /\ calls[c].op = "fetchTasks"
    /\ calls' = [calls EXCEPT ![c].st = "replied", ![c].reply = StoreSelectAll(store)]
    /\ settled' = NoCall
    /\ UNCHANGED <<created, deleted>>
    /\ UNCHANGED <<tasks, loading, error, open, currentRow, store, nextId>>

RemoteSelectOne(c) ==
    /\ Sent(c) /\ calls[c].op = "getTaskById"
    /\ calls' = [calls EXCEPT ![c].st = "replied",
                              ![c].reply = StoreSelectOne(store, calls[c].id)]
    /\ settled' = NoCall
    /\ UNCHANGED <<created, deleted>>
    /\ UNCHANGED <<tasks, loading, error, open, currentRow, store, nextId>>

RemoteInsert(c) ==
    /\ Sent(c) /\ calls[c].op = "createTask"
    /\ nextId <= MaxId
    /\ store' = StoreInsert(store, nextId, calls[c].title)
    /\ nextId' = nextId + 1
    /\ calls' = [calls EXCEPT ![c].st = "replied",
                              ![c].reply = Single(Matching(store', nextId))]
    /\ settled' = NoCall
    /\ UNCHANGED <<created, deleted>>
    /\ UNCHANGED <<tasks, loading, error, open, currentRow>>

\* With n the reply carries data === null (an empty body) instead of the list.
RemoteUpdate(c) ==
    /\ Sent(c) /\ calls[c].op = "updateTask"
    /\ store' = StoreUpdate(store, calls[c].id, calls[c].title)
    /\ \E n \in BOOLEAN :
         calls' = [calls EXCEPT ![c].st = "replied",
                                ![c].reply = IF n THEN Reply(FALSE, "", TRUE, <<>>)
                                             ELSE Reply(FALSE, "", FALSE,
                                                        Matching(store', calls[c].id))]
    /\ settled' = NoCall
    /\ UNCHANGED <<created, deleted>>
    /\ UNCHANGED <<tasks, loading, error, open, currentRow, nextId>>

RemoteDelete(c) ==
    /\ Sent(c) /\ calls[c].op = "deleteTask"
    /\ store' = StoreDelete(store, calls[c].id)
    /\ calls' = [calls EXCEPT ![c].st = "replied", ![c].reply = Reply(FALSE, "", TRUE, <<>>)]
    /\ settled' = NoCall
    /\ UNCHANGED <<created, deleted>>
    /\ UNCHANGED <<tasks, loading, error, open, currentRow, nextId>>

----------------------------------------------------------------------------
\* useTasksService: each operation up to its await, and its continuation.

CanCall == Len(calls) < MaxInFlight

Issue(o, i, t, v) ==
    /\ calls' = Append(calls, NewCall(o, i, t, v))
    /\ settled' = NoCall
    /\ UNCHANGED <<created, deleted>>

\* fetchTasks, lines 12-17: setLoading(true); setError(null); await select.
FetchTasks ==
    /\ CanCall
    /\ loading' = TRUE
    /\ error' = NoError
    /\ Issue("fetchTasks", 0, "", "direct")
    /\ UNCHANGED <<tasks, open, currentRow, store, nextId>>

\* if (error) throw error; setTasks(data)
FetchedTasks(prev, r) == IF r.err THEN prev ELSE r.rows

\* catch: setError(errorMessage); without an error the state is left alone
FetchedError(prev, r) ==
    IF r.err THEN ErrorMessage(r.msg, "Failed to fetch tasks, please try again later")
    ELSE prev

\* fetchTasks without its finally block.
FetchedLoadingKept(prev) == prev

\* finally: setLoading(false)
FetchedLoading(prev) == FALSE

\* The catch block shows the toast and swallows the error.
FetchSettled(call) ==
    LET r == call.reply IN
      IF r.err
      THEN Resolved(call, <<>>, <<Toast("error",
               ErrorMessage(r.msg, "Failed to fetch tasks, please try again later"))>>)
      ELSE Resolved(call, <<>>, <<>>)

FetchTasksResume(c) ==
    /\ Replied(c) /\ calls[c].op = "fetchTasks"
    /\ tasks' = FetchedTasks(tasks, calls[c].reply)
    /\ error' = FetchedError(error, calls[c].reply)
    /\ loading' = FetchedLoading(loading)
    /\ Settle(c, FetchSettled(calls[c]))
    /\ UNCHANGED <<open, currentRow, store, nextId>>

GetTaskById(i) ==
    /\ CanCall
    /\ Issue("getTaskById", i, "", "direct")
    /\ UNCHANGED <<tasks, loading, error, open, currentRow, store, nextId>>

\* The fallback text of the source is in Chinese: "get task <id> failed".
GetSettled(call) ==
    LET r == call.reply IN
      IF r.err
      THEN Rejected(call, r.msg, <<Toast("error",
               ErrorMessage(r.msg, "Failed to get task " \o ToString(call.id)))>>)
      ELSE Resolved(call, r.rows, <<>>)

GetTaskByIdResume(c) ==
    /\ Replied(c) /\ calls[c].op = "getTaskById"
    /\ Settle(c, GetSettled(calls[c]))
    /\ UNCHANGED <<tasks, loading, error, open, currentRow, store, nextId>>

CreateTask(t) ==
    /\ CanCall
    /\ Issue("createTask", 0, t, "direct")
    /\ UNCHANGED <<tasks, loading, error, open, currentRow, store, nextId>>

\* setTasks((prev) => [...prev, newTask])
AppendTask(prev, newTask) == Append(prev, newTask)

CreatedTasks(prev, r) == IF r.err THEN prev ELSE AppendTask(prev, r.rows[1])

CreateSettled(call) ==
    LET r == call.reply IN
      IF r.err
      THEN Rejected(call, r.msg, <<Toast("error",
               ErrorMessage(r.msg, "Failed to create task"))>>)
      ELSE Resolved(call, r.rows, <<Toast("success", "Task created successfully")>>)

CreateTaskResume(c) ==
    /\ Replied(c) /\ calls[c].op = "createTask"
    /\ tasks' = CreatedTasks(tasks, calls[c].reply)
    /\ Settle(c, CreateSettled(calls[c]))
    /\ UNCHANGED <<loading, error, open, currentRow, store, nextId>>

UpdateTask(i, t) ==
    /\ CanCall
    /\ Issue("updateTask", i, t, "direct")
    /\ UNCHANGED <<tasks, loading, error, open, currentRow, store, nextId>>

\* The check with the empty-list case left out.
NoRowsUpdatedNullOnly(r) == r.null

\* !data || (Array.isArray(data) && data.length === 0)
NoRowsUpdated(r) == r.null \/ Len(r.rows) = 0

NotFoundMessage(i) == "Task with ID " \o ToString(i) \o " not found"

\* data[0]; undefined for an empty list
FirstRow(rows) == IF Len(rows) = 0 THEN NoRow ELSE rows[1]

\* An updateTask that writes the row it got back into the cache.
UpdatedTasksWrittenBack(prev, r) ==
    IF r.err \/ r.null \/ r.rows = <<>> THEN prev
    ELSE [k \in 1..Len(prev) |-> IF prev[k].id = r.rows[1].id THEN r.rows[1] ELSE prev[k]]

\* The cache after updateTask: no branch of it calls setTasks.
UpdatedTasks(prev, r) == prev

\* updateTask showing its success toast before the no-rows check.
UpdateSettledToastFirst(call) ==
    LET r == call.reply
        fallback == "Failed to update task " \o ToString(call.id) IN
      IF r.err
      THEN Rejected(call, r.msg, <<Toast("error", ErrorMessage(r.msg, fallback))>>)
      ELSE IF r.null \/ r.rows = <<>>
      THEN Rejected(call, NotFoundMessage(call.id),
                    <<Toast("success", "Task updated successfully"),
                      Toast("error", ErrorMessage(NotFoundMessage(call.id), fallback))>>)
      ELSE Resolved(call, <<r.rows[1]>>, <<Toast("success", "Task updated successfully")>>)

UpdateSettled(call) ==
    LET r == call.reply
        fallback == "Failed to update task " \o ToString(call.id) IN
      IF r.err
      THEN Rejected(call, r.msg, <<Toast("error", ErrorMessage(r.msg, fallback))>>)
      ELSE IF NoRowsUpdated(r)
      THEN Rejected(call, NotFoundMessage(call.id),
                    <<Toast("error", ErrorMessage(NotFoundMessage(call.id), fallback))>>)
      ELSE Resolved(call, <<FirstRow(r.rows)>>,
                    <<Toast("success", "Task updated successfully")>>)

UpdateTaskResume(c) ==
    /\ Replied(c) /\ calls[c].op = "updateTask"
    /\ tasks' = UpdatedTasks(tasks, calls[c].reply)
    /\ Settle(c, UpdateSettled(calls[c]))
    /\ UNCHANGED <<loading, error, open, currentRow, store, nextId>>

\* deleteTask called by any consumer of the context other than the dialog.
DeleteTask(i) ==
    /\ CanCall
    /\ Issue("deleteTask", i, "", "direct")
    /\ UNCHANGED <<tasks, loading, error, open, currentRow, store, nextId>>

\* The filter with its test inverted (=== for !==).
RemoveTaskInverted(prev, i) == SelectSeq(prev, LAMBDA t : t.id = i)

\* setTasks((prev) => prev.filter((t) => t.id !== id))
RemoveTask(prev, i) == SelectSeq(prev, LAMBDA t : t.id # i)

DeletedTasks(prev, call) == IF call.reply.err THEN prev ELSE RemoveTask(prev, call.id)

DeleteSettled(call) ==
    LET r == call.reply IN
      IF r.err
      THEN Rejected(call, r.msg, <<Toast("error",
               ErrorMessage(r.msg, "Failed to delete task " \o ToString(call.id)))>>)
      ELSE Resolved(call, <<>>, <<Toast("success", "Task deleted successfully")>>)

DeleteTaskResume(c) ==
    /\ Replied(c) /\ calls[c].op = "deleteTask" /\ calls[c].via = "direct"
    /\ tasks' = DeletedTasks(tasks, calls[c])
    /\ Settle(c, DeleteSettled(calls[c]))
    /\ UNCHANGED <<loading, error, open, currentRow, store, nextId>>

----------------------------------------------------------------------------
\* TasksProvider and TasksDialogs.

\* The setter returned by useDialogState: naming the dialog that is already
\* open closes it, which is how the onOpenChange handlers close a dialog.
UseDialogStateSetOpen(prev, str) == IF prev = str THEN "none" ELSE str

\* setOpen and setCurrentRow are handed to every consumer of the context.
SetOpen(str) ==
    /\ open' = UseDialogStateSetOpen(open, str)
    /\ UNCHANGED <<tasks, loading, error, currentRow, store, nextId, calls>>
    /\ settled' = NoCall
    /\ UNCHANGED <<created, deleted>>

SetCurrentRow(row) ==
    /\ currentRow' = row
    /\ UNCHANGED <<tasks, loading, error, open, store, nextId, calls>>
    /\ settled' = NoCall
    /\ UNCHANGED <<created, deleted>>

\* The confirm dialog rendered outside the currentRow guard.
ConfirmDialogUnguarded == open = "delete"

\* What TasksDialogs renders as open in the current state.
CreateDrawerOpen  == open = "create"
ImportDialogOpen  == open = "import"
UpdateDrawerOpen  == currentRow # NoRow /\ open = "update"
ConfirmDialogOpen == currentRow # NoRow /\ open = "delete"

CreateOnOpenChange ==
    /\ CreateDrawerOpen
    /\ open' = UseDialogStateSetOpen(open, "create")
    /\ UNCHANGED <<tasks, loading, error, currentRow, store, nextId, calls>>
    /\ settled' = NoCall
    /\ UNCHANGED <<created, deleted>>

ImportOnOpenChange ==
    /\ ImportDialogOpen
    /\ open' = UseDialogStateSetOpen(open, "import")
    /\ UNCHANGED <<tasks, loading, error, currentRow, store, nextId, calls>>
    /\ settled' = NoCall
    /\ UNCHANGED <<created, deleted>>

UpdateOnOpenChange ==
    /\ UpdateDrawerOpen
    /\ open' = UseDialogStateSetOpen(open, "update")
    /\ currentRow' = NoRow
    /\ UNCHANGED <<tasks, loading, error, store, nextId, calls>>
    /\ settled' = NoCall
    /\ UNCHANGED <<created, deleted>>

DeleteOnOpenChange ==
    /\ ConfirmDialogOpen
    /\ open' = UseDialogStateSetOpen(open, "delete")
    /\ currentRow' = NoRow
    /\ UNCHANGED <<tasks, loading, error, store, nextId, calls>>
    /\ settled' = NoCall
    /\ UNCHANGED <<created, deleted>>

\* handleConfirm up to its await: deleteTask(currentRow.id).
HandleConfirm ==
    /\ ConfirmDialogOpen
    /\ CanCall
    /\ Issue("deleteTask", currentRow.id, "", "dialog")
    /\ UNCHANGED <<tasks, loading, error, open, currentRow, store, nextId>>

\* handleConfirm after the await: try { setOpen(null); setCurrentRow(null) }
\* catch { console.error(...) }
\* handleConfirm closing the dialog in a finally block.
ConfirmedOpenAlways(prev, outcome) == UseDialogStateSetOpen(prev, "none")

ConfirmedOpen(prev, outcome) ==
    IF outcome = "resolved" THEN UseDialogStateSetOpen(prev, "none") ELSE prev

ConfirmedRow(prev, outcome) ==
    IF outcome = "resolved" THEN NoRow ELSE prev

ConfirmedLogs(outcome) ==
    IF outcome = "resolved" THEN <<>> ELSE <<"Failed to delete task">>

\* deleteTask settles, then handleConfirm's try or catch runs.
HandleConfirmResume(c) ==
    /\ Replied(c) /\ calls[c].op = "deleteTask" /\ calls[c].via = "dialog"
    /\ LET d == DeleteSettled(calls[c]) IN
         /\ tasks' = DeletedTasks(tasks, calls[c])
         /\ Settle(c, [d EXCEPT !.logs = ConfirmedLogs(d.outcome)])
         /\ open' = ConfirmedOpen(open, d.outcome)
         /\ currentRow' = ConfirmedRow(currentRow, d.outcome)
    /\ UNCHANGED <<loading, error, store, nextId>>

----------------------------------------------------------------------------
Remote ==
    \E c \in CallIds :
        \/ RemoteFails(c)
        \/ RemoteSelectAll(c)
        \/ RemoteSelectOne(c)
        \/ RemoteInsert(c)
        \/ RemoteUpdate(c)
        \/ RemoteDelete(c)

\* The service with the consumers that call it directly.
Next ==
    \/ FetchTasks
    \/ \E i \in KnownIds : GetTaskById(i)
    \/ \E t \in NewTitles : CreateTask(t)
    \/ \E i \in KnownIds, t \in PatchTitles : UpdateTask(i, t)
    \/ \E i \in KnownIds : DeleteTask(i)
    \/ Remote
    \/ \E c \in CallIds :
        \/ FetchTasksResume(c)
        \/ GetTaskByIdResume(c)
        \/ CreateTaskResume(c)
        \/ UpdateTaskResume(c)
        \/ DeleteTaskResume(c)

Spec == Init /\ [][Next]_vars

\* The dialogs over the service: the refresh that fills the cache the rows are
\* picked from, the delete the confirm dialog issues, and everything
\* TasksDialogs and the context setters do.
NextDialogs ==
    \/ FetchTasks
    \/ \E c \in CallIds :
        \/ RemoteFails(c)
        \/ RemoteSelectAll(c)
        \/ RemoteDelete(c)
    \/ \E c \in CallIds :
        \/ FetchTasksResume(c)
        \/ HandleConfirmResume(c)
    \/ \E str \in DialogTypes \cup {"none"} : SetOpen(str)
    \/ \E row \in Rows(tasks) \cup {NoRow} : SetCurrentRow(row)
    \/ CreateOnOpenChange
    \/ ImportOnOpenChange
    \/ UpdateOnOpenChange
    \/ DeleteOnOpenChange
    \/ HandleConfirm

SpecDialogs == Init /\ [][NextDialogs]_vars

----------------------------------------------------------------------------
\* Vocabulary of the properties.

\* The remote call of a settled call failed: a transport error (for
\* getTaskById also no single row), or an update that matched no row.
Failed(call) ==
    \/ call.reply.err
    \/ call.op = "updateTask" /\ (call.reply.null \/ call.reply.rows = <<>>)

Succeeded(call) == call.op # "none" /\ ~Failed(call)

Mutations == {"createTask", "updateTask", "deleteTask"}

CountKind(ts, k) == Cardinality({n \in 1..Len(ts) : ts[n].kind = k})

RECURSIVE IsSubseq(_, _)
IsSubseq(a, b) ==
    IF a = <<>> THEN TRUE
    ELSE IF b = <<>> THEN FALSE
    ELSE IF Head(a) = Head(b) THEN IsSubseq(Tail(a), Tail(b))
    ELSE IsSubseq(a, Tail(b))

FetchInFlight == \E c \in CallIds : calls[c].op = "fetchTasks"

----------------------------------------------------------------------------
\* C1: right after a createTask resolves, the cache is the cache it found with
\* the returned record appended, and holds that record's id exactly once,
\* whatever other calls were in flight.
C1_CreatedOnceAtTail ==
    (settled.op = "createTask" /\ settled.outcome = "resolved") =>
        /\ tasks = Append(settled.before, settled.result[1])
        /\ CountId(tasks, settled.result[1].id) = 1

\* C2: right after a deleteTask(i) resolves, no cached record has id i and the
\* rest of the cache is what it was, in the same order.
C2_DeletedOnlyThatId ==
    (settled.op = "deleteTask" /\ settled.outcome = "resolved") =>
        /\ ~HasId(tasks, settled.id)
        /\ IsSubseq(tasks, settled.before)
        /\ Len(tasks) = Len(settled.before) - CountId(settled.before, settled.id)

C2_Witness ==
    /\ settled.op = "deleteTask" /\ settled.outcome = "resolved"
    /\ HasId(settled.before, settled.id)
    /\ Len(settled.before) >= 2
    /\ tasks # <<>>

\* C3: a step changes the cache only by settling a fetchTasks, createTask or
\* deleteTask whose remote call succeeded; failed calls, updateTask and
\* getTaskById leave it as it was.
C3_CacheFrame ==
    [][tasks' # tasks =>
          /\ settled'.op \in {"fetchTasks", "createTask", "deleteTask"}
          /\ Succeeded(settled')]_vars

\* A resolved updateTask whose row differs from the cached row of that id.
C3_Witness ==
    /\ settled.op = "updateTask" /\ settled.outcome = "resolved"
    /\ HasId(tasks, settled.id)
    /\ \A k \in 1..Len(tasks) : tasks[k].id = settled.id => tasks[k] # settled.result[1]
    /\ tasks = settled.before

\* C4: updateTask rejects with the not-found error when the reply has no error
\* and no rows (null or an empty list); it resolves, with the first row, only
\* when a row came back, and shows the success toast only then.
C4_UpdateNotFound ==
    settled.op = "updateTask" =>
        LET r == settled.reply IN
          /\ (~r.err /\ (r.null \/ r.rows = <<>>)) =>
                 /\ settled.outcome = "rejected"
                 /\ settled.thrown = NotFoundMessage(settled.id)
          /\ settled.outcome = "resolved" <=> (~r.err /\ ~r.null /\ Len(r.rows) >= 1)
          /\ settled.outcome = "resolved" => settled.result = <<r.rows[1]>>
          /\ CountKind(settled.toasts, "success") > 0 <=> settled.outcome = "resolved"

\* An update of an id the store does not hold, answered with an empty list.
C4_Witness ==
    /\ settled.op = "updateTask"
    /\ ~settled.reply.err /\ ~settled.reply.null /\ settled.reply.rows = <<>>
    /\ ~HasId(store, settled.id)
    /\ settled.outcome = "rejected"

\* C5 as stated: when the delete the confirm dialog issued fails, the dialog
\* state is closed afterwards.
C5_ClosedAfterFailedConfirm ==
    (settled.via = "dialog" /\ settled.outcome = "rejected") => open = "none"

\* C5 as the code has it: when the delete the confirm dialog issued fails, the
\* handler leaves open and currentRow as they are and only logs the failure.
C5_FailedConfirmKeepsDialog ==
    [][(settled'.via = "dialog" /\ settled'.outcome = "rejected") =>
          /\ open' = open
          /\ currentRow' = currentRow
          /\ settled'.logs = <<"Failed to delete task">>]_vars

C5_Witness ==
    /\ settled.via = "dialog" /\ settled.outcome = "rejected"
    /\ ConfirmDialogOpen
    /\ currentRow.id = settled.id
    /\ settled.logs # <<>>

C7_RethrowExceptFetch ==
    /\ (settled.op \in Mutations \cup {"getTaskById"} /\ Failed(settled)) =>
          /\ settled.outcome = "rejected"
          /\ settled.thrown = IF settled.reply.err THEN settled.reply.msg
                              ELSE NotFoundMessage(settled.id)
    /\ settled.op = "fetchTasks" =>
          /\ settled.outcome = "resolved"
          /\ loading = FALSE
          /\ settled.reply.err =>
                /\ error # NoError
                /\ settled.reply.msg # "" => error = settled.reply.msg
                /\ settled.reply.msg = "" =>
                      error = "Failed to fetch tasks, please try again later"

\* A failed fetchTasks has settled while another fetchTasks is still in flight.
C7_Witness ==
    /\ settled.op = "fetchTasks" /\ settled.reply.err
    /\ settled.outcome = "resolved"
    /\ error # NoError
    /\ FetchInFlight

\* C8: the confirm dialog and the update drawer are open only with a row
\* selected, and a confirm calls deleteTask with the id of the selected row.
C8_ConfirmNeedsRow ==
    [][/\ (ConfirmDialogOpen \/ UpdateDrawerOpen) => currentRow # NoRow
       /\ (Len(calls') > Len(calls) /\ calls'[Len(calls')].via = "dialog") =>
             /\ open = "delete"
             /\ currentRow # NoRow
             /\ calls'[Len(calls')].op = "deleteTask"
             /\ calls'[Len(calls')].id = currentRow.id]_vars

\* open is 'delete' with no row selected, after a confirm has been issued.
C8_Witness ==
    /\ open = "delete" /\ currentRow = NoRow
    /\ ~ConfirmDialogOpen
    /\ \E c \in CallIds : calls[c].via = "dialog"

\* C9: an id whose deleteTask has resolved is in the cache in no later state,
\* and a record a createTask appended leaves the cache only when a deleteTask
\* for its id resolves.
C9_DeletedStaysOutCreatedStaysIn ==
    [][/\ \A i \in deleted' : ~HasId(tasks', i)
       /\ \A i \in created :
             (HasId(tasks, i) /\ ~HasId(tasks', i)) =>
                 /\ settled'.op = "deleteTask"
                 /\ settled'.outcome = "resolved"
                 /\ settled'.id = i]_vars

\* C10: loading is true exactly when a fetchTasks is in flight.
C10_LoadingIffFetching == loading <=> FetchInFlight

====
